---------------------------- MODULE Spec2Model ----------------------------
(***************************************************************************)
(* A model of the multi-agent stock recommendation service:                *)
(*   - graph_app.py / graph_app_dev.py: get_history_from_output,           *)
(*     extract_final_text, build_timeline_with_result, build_graph;        *)
(*   - api.py: lifespan and the /recommend handler;                        *)
(*   - main.py: run_agent.                                                 *)
(*                                                                         *)
(* Text is modelled as a sequence of lexemes (tokens); json.loads is a     *)
(* recursive-descent parser over those lexemes.  A Python exception is the *)
(* name of its class in the field exc ("" when the call returned).         *)
(***************************************************************************)
EXTENDS Integers, Sequences, FiniteSets, TLC

\* ------------------------------------------------------------------------
\* Lexemes of a text.  A string lexeme stands for the quoted string of that
\* name ("stocks" is the lexeme "\"stocks\""); "ws" is white space; "junk"
\* is any run of characters that is no JSON lexeme (letters, a single
\* quoted Python string, a markdown fence).
\* ------------------------------------------------------------------------
StockFields ==
    <<"name", "ticker", "action", "targetPrice", "currentPrice", "trend",
      "sentiment", "reason">>

StrTokens == {StockFields[i] : i \in 1..Len(StockFields)} \cup {"stocks", "x"}

NumTokens == {"1"}

\* ------------------------------------------------------------------------
\* Python values that json.loads produces.  Every value has the same four
\* fields: t (its type), s (the str or the literal of an int), l (the items
\* of a list), o (the items of a dict, in insertion order: k key, v value).
\* ------------------------------------------------------------------------
JNone == [t |-> "none", s |-> "", l |-> <<>>, o |-> <<>>]

JStr(tok) == [t |-> "str", s |-> tok, l |-> <<>>, o |-> <<>>]

JInt(tok) == [t |-> "int", s |-> tok, l |-> <<>>, o |-> <<>>]

JList(items) == [t |-> "list", s |-> "", l |-> items, o |-> <<>>]

JDict(pairs) == [t |-> "dict", s |-> "", l |-> <<>>, o |-> pairs]

\* key in d, for a dict d
HasKey(d, key) == \E i \in 1..Len(d.o) : d.o[i].k = key

\* d[key], for a dict d that has the key
GetKey(d, key) == d.o[CHOOSE i \in 1..Len(d.o) : d.o[i].k = key].v

\* d[key] = val as a Python dict does it: a key already present keeps its
\* place and takes the new value, a new key goes last.
DictSet(pairs, key, val) ==
    IF \E i \in 1..Len(pairs) : pairs[i].k = key
    THEN [i \in 1..Len(pairs) |->
            IF pairs[i].k = key THEN [k |-> key, v |-> val] ELSE pairs[i]]
    ELSE Append(pairs, [k |-> key, v |-> val])

\* ------------------------------------------------------------------------
\* json.loads: a recursive-descent parse of the lexemes.  A parse step
\* returns [ok, val, next]: whether a value was read, the value, and the
\* index of the first lexeme after it.
\* ------------------------------------------------------------------------
ParseFail == [ok |-> FALSE, val |-> JNone, next |-> 0]

ParseOk(v, n) == [ok |-> TRUE, val |-> v, next |-> n]

\* The one element of a singleton set.  The({e : x \in {v}}) is e with x
\* bound to the value of v, computed once.
The(S) == CHOOSE x \in S : TRUE

RECURSIVE SkipWs(_, _)
SkipWs(toks, i) ==
    IF i <= Len(toks) /\ toks[i] = "ws" THEN SkipWs(toks, i + 1) ELSE i

RECURSIVE ParseValue(_, _)
RECURSIVE ParseElems(_, _, _)
RECURSIVE ParseMembers(_, _, _)
RECURSIVE ParseMemberValue(_, _, _, _)

ParseValue(toks, i0) ==
    The({IF i > Len(toks) THEN ParseFail
         ELSE CASE toks[i] \in StrTokens -> ParseOk(JStr(toks[i]), i + 1)
                [] toks[i] \in NumTokens -> ParseOk(JInt(toks[i]), i + 1)
                [] toks[i] = "null" -> ParseOk(JNone, i + 1)
                [] toks[i] = "[" ->
                     The({IF j <= Len(toks) /\ toks[j] = "]"
                          THEN ParseOk(JList(<<>>), j + 1)
                          ELSE ParseElems(toks, j, <<>>)
                          : j \in {SkipWs(toks, i + 1)}})
                [] toks[i] = "{" ->
                     The({IF j <= Len(toks) /\ toks[j] = "}"
                          THEN ParseOk(JDict(<<>>), j + 1)
                          ELSE ParseMembers(toks, j, <<>>)
                          : j \in {SkipWs(toks, i + 1)}})
                [] OTHER -> ParseFail
         : i \in {SkipWs(toks, i0)}})

\* the items of a list, from the first item on: value ("," value)* "]";
\* r is the item read at i, j the index of the lexeme after it
ParseElems(toks, i, acc) ==
    The({IF ~r.ok THEN ParseFail
         ELSE The({IF j > Len(toks) THEN ParseFail
                   ELSE IF toks[j] = "]" THEN ParseOk(JList(items), j + 1)
                   ELSE IF toks[j] = "," THEN ParseElems(toks, j + 1, items)
                   ELSE ParseFail
                   : j \in {SkipWs(toks, r.next)}, items \in {Append(acc, r.val)}})
         : r \in {ParseValue(toks, i)}})

\* the value of the dict item whose key is at i: ":" value, then "," and the
\* next item, or "}"
ParseMemberValue(toks, i, c, acc) ==
    The({IF ~r.ok THEN ParseFail
         ELSE The({IF j > Len(toks) THEN ParseFail
                   ELSE IF toks[j] = "}" THEN ParseOk(JDict(pairs), j + 1)
                   ELSE IF toks[j] = "," THEN ParseMembers(toks, j + 1, pairs)
                   ELSE ParseFail
                   : j \in {SkipWs(toks, r.next)},
                     pairs \in {DictSet(acc, toks[i], r.val)}})
         : r \in {ParseValue(toks, c + 1)}})

\* the items of a dict, from the first key on:
\* string ":" value ("," string ":" value)* "}"
ParseMembers(toks, i0, acc) ==
    The({IF i > Len(toks) \/ (i <= Len(toks) /\ toks[i] \notin StrTokens)
         THEN ParseFail
         ELSE The({IF c > Len(toks) \/ (c <= Len(toks) /\ toks[c] # ":")
                   THEN ParseFail
                   ELSE ParseMemberValue(toks, i, c, acc)
                   : c \in {SkipWs(toks, i + 1)}})
         : i \in {SkipWs(toks, i0)}})

\* json.loads(text): the value, or JSONDecodeError when no value is read or
\* anything but white space follows it.
JsonLoads(text) ==
    The({The({IF r.ok /\ SkipWs(toks, r.next) = Len(toks) + 1
              THEN [exc |-> "", val |-> r.val]
              ELSE [exc |-> "JSONDecodeError", val |-> JNone]
              : r \in {ParseValue(toks, 1)}})
         : toks \in {text}})

\* ------------------------------------------------------------------------
\* Messages.  An entry of a history is [role, name, content]: role is the
\* dict's "role" or the message object's type, name is "" when the message
\* has none (None), content is a str (kind "str", its lexemes in toks) or a
\* list of content blocks (kind "list", the blocks in blocks).  An entry
\* whose role is "" is a dict with neither "role" nor "type".
\* ------------------------------------------------------------------------
StrContent(toks) == [kind |-> "str", toks |-> toks, blocks |-> <<>>]

ListContent(blocks) == [kind |-> "list", toks |-> <<>>, blocks |-> blocks]

Msg(role, name, content) == [role |-> role, name |-> name, content |-> content]

\* convert_to_messages on one entry: the message object's type.  "user" and
\* "human" give a HumanMessage, "assistant" and "ai" an AIMessage, "tool" a
\* ToolMessage; name and content are kept.
MessageType(role) ==
    CASE role \in {"user", "human"} -> "human"
      [] role \in {"assistant", "ai"} -> "ai"
      [] OTHER -> role

\* convert_to_messages(history): [exc, msgs]; a dict with no role and no
\* type is refused with ValueError.
ConvertToMessages(history) ==
    IF \E i \in 1..Len(history) : history[i].role = ""
    THEN [exc |-> "ValueError", msgs |-> <<>>]
    ELSE [exc |-> "",
          msgs |-> [i \in 1..Len(history) |->
                      [type |-> MessageType(history[i].role),
                       name |-> history[i].name,
                       content |-> history[i].content]]]

\* repr of one content block inside str(list): a dict block prints as
\* {'type': 'text', 'text': '...'} and a str block as '...'; a single
\* quoted string is no JSON lexeme.
BlockRepr(block) ==
    IF block = "dict"
    THEN <<"{", "junk", ":", "ws", "junk", ",", "ws", "junk", ":", "ws", "junk", "}">>
    ELSE <<"junk">>

RECURSIVE ItemsRepr(_, _)
ItemsRepr(blocks, i) ==
    IF i > Len(blocks) THEN <<>>
    ELSE (IF i > 1 THEN <<",", "ws">> ELSE <<>>)
         \o BlockRepr(blocks[i]) \o ItemsRepr(blocks, i + 1)

\* str(content) for a content that is not a str
PyStr(content) ==
    IF content.kind = "str" THEN content.toks
    ELSE <<"[">> \o ItemsRepr(content.blocks, 1) \o <<"]">>

\* ------------------------------------------------------------------------
\* The graph output: a dict that may hold "supervisor" (a dict, which may
\* hold "messages", or something else) and may hold "messages".
\* ------------------------------------------------------------------------
GraphOutput(hasSup, supIsDict, supHasMsgs, supMsgs, hasMsgs, msgs) ==
    [hasSup |-> hasSup, supIsDict |-> supIsDict, supHasMsgs |-> supHasMsgs,
     supMsgs |-> supMsgs, hasMsgs |-> hasMsgs, msgs |-> msgs]

FlatOutput(h) == GraphOutput(FALSE, FALSE, FALSE, <<>>, TRUE, h)

NestedOutput(h) == GraphOutput(TRUE, TRUE, TRUE, h, FALSE, <<>>)

\* graph_app.get_history_from_output
get_history_from_output(g) ==
    IF g.hasSup /\ g.supIsDict
    THEN (IF g.supHasMsgs THEN g.supMsgs ELSE <<>>)
    ELSE (IF g.hasMsgs THEN g.msgs ELSE <<>>)

EmptyStocks == JDict(<<[k |-> "stocks", v |-> JList(<<>>)]>>)

Returned(v) == [exc |-> "", val |-> v]

Raised(e) == [exc |-> e, val |-> JNone]

\* the tail both extractors share: json.loads(text), then the isinstance and
\* "stocks" in data test; JSONDecodeError is caught.
ParseFinal(text) ==
    The({IF r.exc = "" /\ r.val.t = "dict" /\ HasKey(r.val, "stocks")
         THEN Returned(r.val)
         ELSE Returned(EmptyStocks)
         : r \in {JsonLoads(text)}})

\* graph_app.extract_final_text
extract_final_text(g) ==
    The({IF conv.exc # "" THEN Raised(conv.exc)
         ELSE IF Len(conv.msgs) = 0 THEN Returned(EmptyStocks)
         ELSE ParseFinal(PyStr(conv.msgs[Len(conv.msgs)].content))
         : conv \in {ConvertToMessages(get_history_from_output(g))}})

\* graph_app_dev.extract_final_text: graph_output["messages"], messages[-1]
\* and json.loads(text) are used as they come.
dev_extract_final_text(g) ==
    IF ~g.hasMsgs THEN Raised("KeyError")
    ELSE The({IF conv.exc # "" THEN Raised(conv.exc)
              ELSE IF Len(conv.msgs) = 0 THEN Raised("IndexError")
              ELSE IF conv.msgs[Len(conv.msgs)].content.kind # "str"
              THEN Raised("TypeError")
              ELSE ParseFinal(conv.msgs[Len(conv.msgs)].content.toks)
              : conv \in {ConvertToMessages(g.msgs)}})

\* ------------------------------------------------------------------------
\* The timeline.
\* ------------------------------------------------------------------------
\* getattr(msg, "role", getattr(msg, "type", "")) or "ai"
RoleOf(msg) == IF msg.type = "" THEN "ai" ELSE msg.type

\* graph_app: the agent of an entry
AgentOf(msg) ==
    IF msg.name # "" THEN msg.name
    ELSE IF RoleOf(msg) = "human" THEN "user" ELSE "unknown"

\* LabelOf with the agent lookup tried before the "User query" test
LabelOf_AgentFirst(msg, idx) ==
    LET agent == AgentOf(msg) IN
    CASE agent = "stock_finder_agent" -> "Stock selection"
      [] agent = "market_data_agent" -> "Market data fetch"
      [] agent = "news_analyst_agent" -> "News and sentiment"
      [] agent = "price_recommender_agent" -> "Final JSON"
      [] OTHER -> IF RoleOf(msg) = "human" /\ idx = 0 THEN "User query"
                  ELSE "Message"

\* graph_app: the label of the entry at index idx (from 0)
LabelOf(msg, idx) ==
    LET agent == AgentOf(msg) IN
    IF RoleOf(msg) = "human" /\ idx = 0 THEN "User query"
    ELSE CASE agent = "stock_finder_agent" -> "Stock selection"
           [] agent = "market_data_agent" -> "Market data fetch"
           [] agent = "news_analyst_agent" -> "News and sentiment"
           [] agent = "price_recommender_agent" -> "Final JSON"
           [] OTHER -> "Message"

TimelineEntry(msg, idx) ==
    [step |-> idx, role |-> RoleOf(msg), agent |-> AgentOf(msg),
     content |-> PyStr(msg.content), label |-> LabelOf(msg, idx)]

\* graph_app.build_timeline_with_result: [exc, timeline, final]
build_timeline_with_result(g) ==
    The({[exc |-> final.exc,
          timeline |-> IF final.exc = ""
                       THEN [i \in 1..Len(messages) |-> TimelineEntry(messages[i], i - 1)]
                       ELSE <<>>,
          final |-> final.val]
         : messages \in {ConvertToMessages(get_history_from_output(g)).msgs},
           final \in {extract_final_text(g)}})

dev_AgentOf(msg) ==
    IF msg.name # "" THEN msg.name
    ELSE IF RoleOf(msg) = "human" THEN "user" ELSE "stock_reco_agent"

dev_LabelOf(msg, idx) ==
    IF RoleOf(msg) = "human" /\ idx = 0 THEN "User query" ELSE "Model turn"

dev_TimelineEntry(msg, idx) ==
    [step |-> idx, role |-> RoleOf(msg), agent |-> dev_AgentOf(msg),
     content |-> PyStr(msg.content), label |-> dev_LabelOf(msg, idx)]

\* graph_app_dev.build_timeline_with_result: the history is
\* graph_output.get("messages", []); the exception of extract_final_text,
\* called last, is the call's.
dev_build_timeline_with_result(g) ==
    The({[exc |-> final.exc,
          timeline |-> IF final.exc = ""
                       THEN [i \in 1..Len(conv.msgs) |->
                               dev_TimelineEntry(conv.msgs[i], i - 1)]
                       ELSE <<>>,
          final |-> final.val]
         : conv \in {ConvertToMessages(IF g.hasMsgs THEN g.msgs ELSE <<>>)},
           final \in {IF g.hasMsgs /\ ConvertToMessages(g.msgs).exc # ""
                      THEN Raised(ConvertToMessages(g.msgs).exc)
                      ELSE dev_extract_final_text(g)}})

\* ------------------------------------------------------------------------
\* api.recommend after graph.ainvoke has returned graph_output.
\* ------------------------------------------------------------------------
\* pydantic's validation of one entry of stocks as a Stock: a dict that
\* holds the eight fields, each a str
IsStock(v) ==
    /\ v.t = "dict"
    /\ \A i \in 1..Len(StockFields) :
         HasKey(v, StockFields[i]) /\ GetKey(v, StockFields[i]).t = "str"

\* [TimelineEvent(**evt) for evt in timeline_raw]: [exc, events]
ToTimelineEvents(timeline_raw) ==
    IF \E i \in 1..Len(timeline_raw) : timeline_raw[i].step \notin Int
    THEN [exc |-> "ValidationError", events |-> <<>>]
    ELSE [exc |-> "",
          events |-> [i \in 1..Len(timeline_raw) |->
                        [step |-> timeline_raw[i].step,
                         role |-> timeline_raw[i].role,
                         agent |-> timeline_raw[i].agent,
                         content |-> timeline_raw[i].content,
                         label |-> timeline_raw[i].label]]]

\* lines 112-131 of api.py: [exc, stocks, timeline, final]; exc is the
\* exception that leaves the handler ("" when the response is returned),
\* stocks and timeline are the response's fields, final is the extracted
\* data.  stocks is data["stocks"] after line 119 to 121 have replaced a
\* data without a "stocks" list by {"stocks": []}; timeline is the result
\* of the try at lines 123 to 127.
RecommendTail(g) ==
    The({IF bundle.exc # ""
         THEN [exc |-> bundle.exc, stocks |-> <<>>, timeline |-> <<>>, final |-> JNone]
         ELSE The({IF \A i \in 1..Len(stocks) : IsStock(stocks[i])
                   THEN [exc |-> "", stocks |-> stocks, timeline |-> timeline,
                         final |-> bundle.final]
                   ELSE [exc |-> "ValidationError", stocks |-> <<>>,
                         timeline |-> <<>>, final |-> bundle.final]
                   : stocks \in
                       {IF ~HasKey(bundle.final, "stocks")
                           \/ GetKey(bundle.final, "stocks").t # "list"
                        THEN <<>>
                        ELSE GetKey(bundle.final, "stocks").l},
                     timeline \in
                       {IF ToTimelineEvents(bundle.timeline).exc # "" THEN <<>>
                        ELSE ToTimelineEvents(bundle.timeline).events}})
         : bundle \in {build_timeline_with_result(g)}})

\* ------------------------------------------------------------------------
\* The texts a last message is given in the model, as lexemes.
\* ------------------------------------------------------------------------
RECURSIVE MembersToks(_, _)
MembersToks(keys, i) ==
    IF i > Len(keys) THEN <<>>
    ELSE (IF i > 1 THEN <<",", "ws">> ELSE <<>>)
         \o <<keys[i], ":", "ws", "x">> \o MembersToks(keys, i + 1)

\* {"k1": "x", "k2": "x", ...}
ObjToks(keys) == <<"{">> \o MembersToks(keys, 1) \o <<"}">>

\* {"stocks": <value>}
StocksOf(valueToks) == <<"{", "stocks", ":", "ws">> \o valueToks \o <<"}">>

TxtEmpty == <<>>
TxtNotJson == <<"junk", "ws", "junk">>
TxtStocksEmpty == StocksOf(<<"[", "]">>)
TxtOneStock == StocksOf(<<"[">> \o ObjToks(StockFields) \o <<"]">>)
TxtTwoStocks ==
    StocksOf(<<"[">> \o ObjToks(StockFields) \o <<",", "ws">>
             \o ObjToks(StockFields) \o <<"]">>)
TxtPartialStock == StocksOf(<<"[">> \o ObjToks(<<"name", "ticker">>) \o <<"]">>)
TxtIntEntry == StocksOf(<<"[", "1", "]">>)
TxtGoodAndBadEntry ==
    StocksOf(<<"[">> \o ObjToks(StockFields) \o <<",", "ws", "x", "]">>)
TxtStocksStr == StocksOf(<<"x">>)
TxtStocksNull == StocksOf(<<"null">>)
TxtStocksDict == StocksOf(ObjToks(StockFields))
TxtNoStocksKey == ObjToks(<<"name", "x">>)
TxtEmptyDict == <<"{", "}">>
TxtList == <<"[", "]">>
TxtListOfDict == <<"[">> \o TxtStocksEmpty \o <<"]">>
TxtBareStr == <<"stocks">>
TxtInt == <<"1">>
TxtNull == <<"null">>
TxtPadded == <<"ws">> \o TxtOneStock \o <<"ws">>
TxtExtraData == TxtStocksEmpty \o <<"ws", "junk">>
TxtFenced == <<"junk", "ws">> \o TxtOneStock \o <<"ws", "junk">>
TxtTruncated == <<"{", "stocks", ":", "ws", "[">>
TxtTrailingComma == <<"{", "stocks", ":", "ws", "[", "]", ",", "}">>
TxtExtraKey == <<"{", "x", ":", "ws", "1", ",", "ws", "stocks", ":", "ws", "[", "]", "}">>
TxtDupKey == <<"{", "stocks", ":", "ws", "[", "]", ",", "ws", "stocks", ":", "ws", "x", "}">>
TxtNestedStocks == <<"{", "x", ":", "ws">> \o TxtStocksEmpty \o <<"}">>

Texts ==
    {TxtEmpty, TxtNotJson, TxtStocksEmpty, TxtOneStock, TxtTwoStocks,
     TxtPartialStock, TxtIntEntry, TxtGoodAndBadEntry, TxtStocksStr,
     TxtStocksNull, TxtStocksDict, TxtNoStocksKey, TxtEmptyDict, TxtList,
     TxtListOfDict, TxtBareStr, TxtInt, TxtNull, TxtPadded, TxtExtraData,
     TxtFenced, TxtTruncated, TxtTrailingComma, TxtExtraKey, TxtDupKey,
     TxtNestedStocks}

Contents ==
    {StrContent(t) : t \in Texts}
    \cup {ListContent(<<>>), ListContent(<<"dict">>), ListContent(<<"str", "dict">>)}

\* ------------------------------------------------------------------------
\* The histories and graph outputs the two functions are called on.
\* ------------------------------------------------------------------------
MaxHist == 3

PrefixMsgs ==
    {Msg("user", "", StrContent(TxtNotJson)),
     Msg("human", "stock_finder_agent", StrContent(TxtNotJson)),
     Msg("ai", "stock_finder_agent", StrContent(TxtNotJson)),
     Msg("assistant", "price_recommender_agent", StrContent(TxtTwoStocks)),
     Msg("tool", "search_engine", ListContent(<<"dict">>))}

LastMsgs ==
    {Msg("ai", "price_recommender_agent", c) : c \in Contents}
    \cup {Msg("user", "", c) : c \in {StrContent(TxtNotJson), StrContent(TxtOneStock)}}
    \cup {Msg("human", "news_analyst_agent", StrContent(TxtStocksEmpty)),
          Msg("assistant", "", ListContent(<<"str">>))}

Histories ==
    {<<>>} \cup
    {p \o <<m>> : p \in UNION {[1..n -> PrefixMsgs] : n \in 0..(MaxHist - 1)},
                  m \in LastMsgs}

\* histories with an entry that is no message (a dict without a role)
MalformedHistories ==
    {<<Msg("", "", StrContent(TxtNotJson))>>,
     <<Msg("user", "", StrContent(TxtNotJson)), Msg("", "", StrContent(TxtTwoStocks))>>,
     <<Msg("", "", StrContent(TxtNotJson)),
       Msg("ai", "price_recommender_agent", StrContent(TxtTwoStocks))>>}

\* add_handoff_back_messages=True: the two messages appended after an
\* agent's turn
HandoffBackMessages(agent) ==
    <<Msg("ai", agent, StrContent(<<"Transferring back to supervisor">>)),
      Msg("tool", "transfer_back_to_supervisor",
          StrContent(<<"Successfully transferred back to supervisor">>))>>

\* histories that end with the handoff back from the last agent, after its
\* answer
HandoffEndedHistories ==
    {<<Msg("user", "", StrContent(TxtNotJson)),
       Msg("ai", "price_recommender_agent", StrContent(t))>>
     \o HandoffBackMessages("price_recommender_agent")
     : t \in {TxtOneStock, TxtNotJson}}

GraphOutputs ==
    {FlatOutput(h) : h \in Histories \cup MalformedHistories \cup HandoffEndedHistories}
    \cup {NestedOutput(h) : h \in Histories \cup HandoffEndedHistories}
    \cup {GraphOutput(TRUE, FALSE, FALSE, <<>>, TRUE, h) : h \in Histories}
    \cup {GraphOutput(FALSE, FALSE, FALSE, <<>>, FALSE, <<>>),
          GraphOutput(TRUE, TRUE, FALSE, <<>>, FALSE, <<>>)}

\* ------------------------------------------------------------------------
\* State.
\*   gout, res: a call of one of the two functions on a graph output
\*     (res.fn is "none" before the call).
\* ------------------------------------------------------------------------
\*   program: the entry point this process runs, "api" (api.py under an
\*     ASGI server) or "cli" (main.py).
\*   env: which of the two API keys the environment holds.
\*   phase: where the process is: "start", "serving" (api, between the
\*     startup and the shutdown of lifespan), "invoking" (cli, inside the
\*     try of run_agent), "stopped", "startup_failed" (api: build_graph
\*     raised), "failed" (cli: run_agent raised).
\*   connOpen: the remote tool connection has been opened.
\*   teardowns: how many times the teardown callback has been invoked.
\*   graph, cleanup_cb: the globals of api.py.
\*   served: a request has been received.
\*   rq: the request in the handler: pc ("idle", "awaiting" graph.ainvoke,
\*     "rejected", "error500", "responded", "failed"), intent, inputs (the
\*     seed messages, empty before they are built), invoked (graph.ainvoke
\*     was called), exc (the exception that left the handler).
\*   run: the run of the supervisor graph that ainvoke started: status
\*     ("none", "running", "returned", "raised"), exc, messages (the state
\*     of the graph), steps (super-steps done), node (the node to run
\*     next), dispatched (the agents handed to, in order), toolCalls (the
\*     <<agent, tool>> invocations made), ignored (the <<agent, tool>>
\*     requests of agents that have no tool node).
\*   response: the body of the response, once rq.pc = "responded".
VARIABLES gout, res, program, env, phase, connOpen, teardowns, graph,
          cleanup_cb, served, rq, run, response

fnVars == <<gout, res>>

svcVars ==
    <<program, env, phase, connOpen, teardowns, graph, cleanup_cb, served,
      rq, run, response>>

vars == <<fnVars, svcVars>>

NoRequest ==
    [pc |-> "idle", intent |-> <<>>, inputs |-> <<>>, invoked |-> FALSE,
     exc |-> ""]

NoRun ==
    [status |-> "none", exc |-> "", messages |-> <<>>, steps |-> 0,
     node |-> "", dispatched |-> <<>>, toolCalls |-> {}, ignored |-> {}]

NoResponse == [stocks |-> <<>>, timeline |-> <<>>]

\* the process before anything has run
SvcStart ==
    /\ phase = "start"
    /\ connOpen = FALSE
    /\ teardowns = 0
    /\ graph = "None"
    /\ cleanup_cb = "None"
    /\ served = FALSE
    /\ rq = NoRequest
    /\ run = NoRun
    /\ response = NoResponse

NoCall ==
    [fn |-> "none", variant |-> "", exc |-> "", final |-> JNone,
     timeline |-> <<>>, stocks |-> <<>>]

Variants == {"graph_app", "graph_app_dev"}

FnInit ==
    /\ gout \in GraphOutputs
    /\ res = NoCall
    /\ program = "api"
    /\ env = [brightKey |-> TRUE, groqKey |-> TRUE]
    /\ SvcStart

\* a caller runs extract_final_text(gout) of one of the two modules
CallExtract ==
    /\ res.fn = "none"
    /\ \E variant \in Variants :
         LET r == IF variant = "graph_app" THEN extract_final_text(gout)
                  ELSE dev_extract_final_text(gout)
         IN res' = [fn |-> "extract", variant |-> variant, exc |-> r.exc,
                    final |-> r.val, timeline |-> <<>>, stocks |-> <<>>]
    /\ UNCHANGED <<gout, svcVars>>

\* a caller runs build_timeline_with_result(gout) of one of the two modules
CallBuildTimeline ==
    /\ res.fn = "none"
    /\ \E variant \in Variants :
         LET r == IF variant = "graph_app" THEN build_timeline_with_result(gout)
                  ELSE dev_build_timeline_with_result(gout)
         IN res' = [fn |-> "timeline", variant |-> variant, exc |-> r.exc,
                    final |-> r.final, timeline |-> r.timeline, stocks |-> <<>>]
    /\ UNCHANGED <<gout, svcVars>>

\* api.recommend goes on from graph_output = gout (api.py imports graph_app)
CallRecommendTail ==
    /\ res.fn = "none"
    /\ LET r == RecommendTail(gout)
       IN res' = [fn |-> "recommend", variant |-> "graph_app", exc |-> r.exc,
                  final |-> r.final, timeline |-> r.timeline, stocks |-> r.stocks]
    /\ UNCHANGED <<gout, svcVars>>

FnNext == CallExtract \/ CallBuildTimeline \/ CallRecommendTail

SpecFn == FnInit /\ [][FnNext]_vars

\* ------------------------------------------------------------------------
\* Claims about the two functions (checked under SpecFn).
\* ------------------------------------------------------------------------
\* the final conversation of a graph output: nested under
\* supervisor.messages, or flat under messages
IsNested(g) == g.hasSup /\ g.supIsDict /\ g.supHasMsgs /\ ~g.hasMsgs

IsFlat(g) == g.hasMsgs /\ ~(g.hasSup /\ g.supIsDict)

Conversation(g) == IF IsNested(g) THEN g.supMsgs ELSE g.msgs

\* every entry of the conversation is a message
WellFormed(g) == \A i \in 1..Len(Conversation(g)) : Conversation(g)[i].role # ""

LastContent(g) == Conversation(g)[Len(Conversation(g))].content

\* the last message's content is text that parses as a JSON object with a
\* "stocks" key
EndsInStocksJson(g) ==
    /\ IsNested(g) \/ IsFlat(g)
    /\ WellFormed(g)
    /\ Len(Conversation(g)) > 0
    /\ LastContent(g).kind = "str"
    /\ LET r == JsonLoads(LastContent(g).toks) IN
         r.exc = "" /\ r.val.t = "dict" /\ HasKey(r.val, "stocks")

\* the history is empty or absent, or the last message's content is not
\* valid JSON, or JSON that is no mapping, or a mapping without "stocks"
EndsInNoStocksJson(g) ==
    \/ Len(Conversation(g)) = 0
    \/ LET r == JsonLoads(PyStr(LastContent(g))) IN
         r.exc # "" \/ r.val.t # "dict" \/ ~HasKey(r.val, "stocks")

\* C1: for any final conversation, flat or nested, whose last message's
\* content is text that parses as a JSON object with a "stocks" key,
\* extract_final_text (of graph_app and of graph_app_dev) returns exactly
\* the parsed object.
C1_ExtractReturnsParsedObject ==
    (res.fn = "extract" /\ EndsInStocksJson(gout))
        => (res.exc = "" /\ res.final = JsonLoads(LastContent(gout).toks).val)

\* graph_app.extract_final_text alone returns the parsed object for both
\* placements of the conversation.
ExtractReturnsParsedObject_graph_app ==
    (res.fn = "extract" /\ res.variant = "graph_app" /\ EndsInStocksJson(gout))
        => (res.exc = "" /\ res.final = JsonLoads(LastContent(gout).toks).val)

\* graph_app_dev.extract_final_text returns the parsed object when the
\* conversation is flat under messages.
ExtractReturnsParsedObject_dev_flat ==
    (res.fn = "extract" /\ res.variant = "graph_app_dev" /\ IsFlat(gout)
     /\ EndsInStocksJson(gout))
        => (res.exc = "" /\ res.final = JsonLoads(LastContent(gout).toks).val)

\* C2: for every final conversation the Extractor never raises, and for an
\* empty or absent history, a last message that is not valid JSON, JSON that
\* is no mapping, or a mapping without "stocks" it returns {"stocks": []}.
C2_ExtractFallsBackNeverRaises ==
    (res.fn = "extract" /\ WellFormed(gout))
        => /\ res.exc = ""
           /\ EndsInNoStocksJson(gout) => res.final = EmptyStocks

\* graph_app.extract_final_text alone never raises and falls back.
ExtractFallsBackNeverRaises_graph_app ==
    (res.fn = "extract" /\ res.variant = "graph_app" /\ WellFormed(gout))
        => /\ res.exc = ""
           /\ EndsInNoStocksJson(gout) => res.final = EmptyStocks

\* C8: build_timeline_with_result (of graph_app and of graph_app_dev)
\* produces exactly one entry per message of the history, in the same order,
\* the i-th entry (from 0) with step = i.
C8_OneEntryPerMessage ==
    (res.fn = "timeline" /\ WellFormed(gout))
        => LET conv == Conversation(gout) IN
           /\ res.exc = ""
           /\ Len(res.timeline) = Len(conv)
           /\ \A i \in 1..Len(conv) :
                /\ res.timeline[i].step = i - 1
                /\ res.timeline[i].role = MessageType(conv[i].role)
                /\ res.timeline[i].content = PyStr(conv[i].content)

\* graph_app.build_timeline_with_result alone: one entry per message, in
\* order, steps 0..n-1.
OneEntryPerMessage_graph_app ==
    (res.fn = "timeline" /\ res.variant = "graph_app" /\ WellFormed(gout))
        => LET conv == Conversation(gout) IN
           /\ res.exc = ""
           /\ Len(res.timeline) = Len(conv)
           /\ \A i \in 1..Len(conv) :
                /\ res.timeline[i].step = i - 1
                /\ res.timeline[i].role = MessageType(conv[i].role)
                /\ res.timeline[i].content = PyStr(conv[i].content)

\* C9: in a timeline, the entry for the message at index 0 is labeled
\* "User query" whenever that message's role is human/user, whatever its
\* agent name; no entry at an index greater than 0 is labeled "User query".
C9_UserQueryLabel ==
    (res.fn = "timeline" /\ res.exc = "")
        => LET conv == Conversation(gout) IN
           /\ (Len(conv) > 0 /\ conv[1].role \in {"human", "user"})
                 => (Len(res.timeline) > 0 /\ res.timeline[1].label = "User query")
           /\ \A i \in 2..Len(res.timeline) : res.timeline[i].label # "User query"

\* a timeline of several entries whose first message is a human message
\* named stock_finder_agent, built by graph_app
C9_Witness ==
    /\ res.fn = "timeline" /\ res.exc = "" /\ res.variant = "graph_app"
    /\ Len(res.timeline) >= 2
    /\ Conversation(gout)[1].role = "human"
    /\ Conversation(gout)[1].name = "stock_finder_agent"
    /\ res.timeline[1].label = "User query"
    /\ \E i \in 2..Len(res.timeline) : Conversation(gout)[i].role = "user"

\* an internal error while the handler builds the timeline: in
\* build_timeline_with_result, or in the conversion to TimelineEvent
TimelineBuildingFails(g) ==
    \/ build_timeline_with_result(g).exc # ""
    \/ ToTimelineEvents(build_timeline_with_result(g).timeline).exc # ""

Whitespace == {" ", "tab", "newline"}

\* str.upper() on one character
UpperChar(c) ==
    CASE c = "b" -> "B" [] c = "u" -> "U" [] c = "y" -> "Y"
      [] c = "s" -> "S" [] c = "e" -> "E" [] c = "l" -> "L"
      [] c = "h" -> "H" [] c = "o" -> "O" [] c = "d" -> "D"
      [] OTHER -> c

\* str.upper()
Upper(s) == [i \in 1..Len(s) |-> UpperChar(s[i])]

RECURSIVE LStrip(_)
LStrip(s) == IF s # <<>> /\ Head(s) \in Whitespace THEN LStrip(Tail(s)) ELSE s

RECURSIVE RStrip(_)
RStrip(s) ==
    IF s # <<>> /\ s[Len(s)] \in Whitespace
    THEN RStrip(SubSeq(s, 1, Len(s) - 1))
    ELSE s

\* str.strip()
Strip(s) == RStrip(LStrip(s))

\* {"BUY", "SELL"} and "HOLD" too
ValidIntents_WithHold ==
    {<<"B", "U", "Y">>, <<"S", "E", "L", "L">>, <<"H", "O", "L", "D">>}

\* the set the handler tests intent_upper against
ValidIntents == {<<"B", "U", "Y">>, <<"S", "E", "L", "L">>}

\* the intents requests carry in the model
RawIntents ==
    {<<" ", "B", "u", "y", "tab">>,
     <<"s", "e", "l", "l">>,
     <<"h", "o", "l", "d">>,
     <<"newline", "H", "o", "l", "d", " ">>,
     <<"b", "u", "y", "s">>,
     <<"b", " ", "u", "y">>,
     <<"s", "e", "l">>,
     <<" ">>,
     <<>>}

Queries == {"query"}

\* the seed message of api.recommend:
\* f"User intent: {intent_upper}. User query: {req.query}"
ApiSeed(intent_upper, query) ==
    Msg("user", "",
        StrContent(<<"User intent: ">> \o intent_upper \o <<". User query: ", query>>))

\* the seed message of main.run_agent
CliSeed(query) == Msg("user", "", StrContent(<<query>>))

\* ------------------------------------------------------------------------
\* The pipeline that build_graph (api) and run_agent (cli) wire.
\* ------------------------------------------------------------------------
AgentNames ==
    {"stock_finder_agent", "market_data_agent", "news_analyst_agent",
     "price_recommender_agent"}

\* the tools the remote server offers
DiscoveredTools == {"search_engine", "scrape_as_markdown"}

allowed_tool_names == {"search_engine"}

data_tools == {t \in DiscoveredTools : t \in allowed_tool_names}

\* every agent is given data_tools
AgentTools_Everywhere(prog, agent) == data_tools

\* the tools= argument of each create_react_agent
AgentTools(prog, agent) ==
    IF prog = "api"
    THEN (IF agent \in {"market_data_agent", "news_analyst_agent"}
          THEN data_tools ELSE {})
    ELSE (IF agent = "market_data_agent" THEN data_tools ELSE {})

\* output_mode of create_supervisor
OutputMode(prog) == IF prog = "api" THEN "full_history" ELSE "last_message"

\* recursion_limit of the config api.recommend passes to ainvoke
ApiRecursionLimit == 6

\* the recursion limit of a run that is given none (main.py)
DefaultRecursionLimit == 25

RecursionLimit(prog) ==
    IF prog = "api" THEN ApiRecursionLimit ELSE DefaultRecursionLimit

\* how many agents a run hands to, at most, in the model
MaxDispatch == 3

\* how many tool requests the backend makes in one agent turn, at most, in
\* the model
MaxToolRounds == 1

\* the answer of an agent's last model call
AgentAnswer(agent) ==
    IF agent = "price_recommender_agent" THEN StrContent(TxtOneStock)
    ELSE StrContent(<<"junk">>)

\* the supervisor's last message, in the model
SupervisorTexts == {TxtOneStock, TxtPartialStock, TxtNotJson}

TransferTool(agent) ==
    CASE agent = "stock_finder_agent" -> "transfer_to_stock_finder_agent"
      [] agent = "market_data_agent" -> "transfer_to_market_data_agent"
      [] agent = "news_analyst_agent" -> "transfer_to_news_analyst_agent"
      [] agent = "price_recommender_agent" -> "transfer_to_price_recommender_agent"

\* what a handoff of the supervisor adds to the state: its AI message with
\* the transfer tool call, and the tool message of the handoff tool
HandoffMessages(agent) ==
    <<Msg("ai", "supervisor", StrContent(<<>>)),
      Msg("tool", TransferTool(agent), StrContent(<<"Successfully transferred">>))>>

\* the sequences of tool requests the backend may make in one turn of an
\* agent built with the given tools: an agent built with tools=[] has no
\* tool node and its turn is one model call
ToolRequests(tools) ==
    IF tools = {} THEN {<<>>} \cup {<<t>> : t \in DiscoveredTools}
    ELSE UNION {[1..n -> DiscoveredTools] : n \in 0..MaxToolRounds}

\* the messages of the tool rounds of a turn: per request, the AI message
\* that carries it and the tool node's message (the tool's result, or the
\* tool node's error for a name that is none of the agent's tools)
RECURSIVE ToolRounds(_, _, _)
ToolRounds(agent, tools, reqs) ==
    IF reqs = <<>> THEN <<>>
    ELSE <<Msg("ai", agent, StrContent(<<>>)),
           Msg("tool", Head(reqs),
               StrContent(IF Head(reqs) \in tools THEN <<"tool result">>
                          ELSE <<"Error: not a valid tool">>))>>
         \o ToolRounds(agent, tools, Tail(reqs))

\* one turn of a react agent, the backend making the tool requests reqs
\* before its answer: [messages, invoked, ignored].  messages are those the
\* turn adds to the agent's state; invoked are the tools the tool node ran;
\* ignored are the requests of an agent that has no tool node (the message
\* that carries the request is the turn's last).
AgentTurn(prog, agent, reqs) ==
    The({IF tools = {}
         THEN [messages |-> <<Msg("ai", agent,
                                  IF reqs = <<>> THEN AgentAnswer(agent)
                                  ELSE StrContent(<<>>))>>,
               invoked |-> {},
               ignored |-> {<<agent, reqs[i]>> : i \in 1..Len(reqs)}]
         ELSE [messages |-> ToolRounds(agent, tools, reqs)
                              \o <<Msg("ai", agent, AgentAnswer(agent))>>,
               invoked |-> {<<agent, reqs[i]>> :
                              i \in {j \in 1..Len(reqs) : reqs[j] \in tools}},
               ignored |-> {}]
         : tools \in {AgentTools(prog, agent)}})

\* what the supervisor keeps of an agent's turn
AgentOutput(prog, messages) ==
    IF OutputMode(prog) = "full_history" THEN messages
    ELSE <<messages[Len(messages)]>>

\* ainvoke(inputs): the run starts at the supervisor
StartRun(inputs) ==
    [status |-> "running", exc |-> "", messages |-> inputs, steps |-> 0,
     node |-> "supervisor", dispatched |-> <<>>, toolCalls |-> {},
     ignored |-> {}]

\* build_graph() and the head of run_agent, in the environment e: the
\* exception raised ("" for none) and whether the tool connection was
\* opened on the way
build_graph(e) ==
    IF ~e.brightKey THEN [exc |-> "RuntimeError", connected |-> FALSE]
    ELSE IF ~e.groqKey THEN [exc |-> "GroqError", connected |-> TRUE]
    ELSE [exc |-> "", connected |-> TRUE]

\* ------------------------------------------------------------------------
\* The process: api.py under its server, or main.py.
\* ------------------------------------------------------------------------
Init ==
    /\ gout = FlatOutput(<<>>)
    /\ res = NoCall
    /\ program \in {"api", "cli"}
    /\ env \in [brightKey : BOOLEAN, groqKey : BOOLEAN]
    /\ SvcStart

\* api.lifespan up to its yield
lifespan_startup ==
    /\ program = "api"
    /\ phase = "start"
    /\ \E b \in {build_graph(env)} :
         /\ connOpen' = b.connected
         /\ IF b.exc # ""
            THEN /\ phase' = "startup_failed"
                 /\ UNCHANGED <<graph, cleanup_cb>>
            ELSE /\ phase' = "serving"
                 /\ graph' = "built"
                 /\ cleanup_cb' = "cleanup"
    /\ UNCHANGED <<fnVars, program, env, teardowns, served, rq, run, response>>

\* api.lifespan after its yield: the server shuts down, no request in the
\* handler
lifespan_shutdown ==
    /\ program = "api"
    /\ phase = "serving"
    /\ rq.pc # "awaiting"
    /\ teardowns' = IF cleanup_cb # "None" THEN teardowns + 1 ELSE teardowns
    /\ phase' = "stopped"
    /\ UNCHANGED <<fnVars, program, env, connOpen, graph, cleanup_cb, served,
                   rq, run, response>>

\* api.recommend up to its await of graph.ainvoke
recommend ==
    /\ program = "api"
    /\ phase = "serving"
    /\ rq.pc # "awaiting"
    /\ \E intent \in RawIntents, query \in Queries :
         \E intent_upper \in {Upper(Strip(intent))} :
           IF graph = "None"
           THEN /\ rq' = [pc |-> "error500", intent |-> intent, inputs |-> <<>>,
                          invoked |-> FALSE, exc |-> "HTTPException500"]
                /\ run' = NoRun
           ELSE IF intent_upper \notin ValidIntents
           THEN /\ rq' = [pc |-> "rejected", intent |-> intent, inputs |-> <<>>,
                          invoked |-> FALSE, exc |-> "HTTPException400"]
                /\ run' = NoRun
           ELSE /\ rq' = [pc |-> "awaiting", intent |-> intent,
                          inputs |-> <<ApiSeed(intent_upper, query)>>,
                          invoked |-> TRUE, exc |-> ""]
                /\ run' = StartRun(<<ApiSeed(intent_upper, query)>>)
    /\ served' = TRUE
    /\ response' = NoResponse
    /\ UNCHANGED <<fnVars, program, env, phase, connOpen, teardowns, graph,
                   cleanup_cb>>

\* api.recommend after graph.ainvoke has returned the final state
recommend_resume ==
    /\ program = "api"
    /\ rq.pc = "awaiting"
    /\ run.status = "returned"
    /\ \E tail \in {RecommendTail(FlatOutput(run.messages))} :
         IF tail.exc = ""
         THEN /\ rq' = [rq EXCEPT !.pc = "responded"]
              /\ response' = [stocks |-> tail.stocks, timeline |-> tail.timeline]
         ELSE /\ rq' = [rq EXCEPT !.pc = "failed", !.exc = tail.exc]
              /\ response' = NoResponse
    /\ UNCHANGED <<fnVars, program, env, phase, connOpen, teardowns, graph,
                   cleanup_cb, served, run>>

\* graph.ainvoke raises: nothing in api.recommend catches it
recommend_raise ==
    /\ program = "api"
    /\ rq.pc = "awaiting"
    /\ run.status = "raised"
    /\ rq' = [rq EXCEPT !.pc = "failed", !.exc = run.exc]
    /\ UNCHANGED <<fnVars, program, env, phase, connOpen, teardowns, graph,
                   cleanup_cb, served, run, response>>

\* main.run_agent up to its await of app.ainvoke
run_agent ==
    /\ program = "cli"
    /\ phase = "start"
    /\ \E b \in {build_graph(env)}, query \in Queries :
         /\ connOpen' = b.connected
         /\ IF b.exc # ""
            THEN /\ phase' = "failed"
                 /\ run' = run
            ELSE /\ phase' = "invoking"
                 /\ run' = StartRun(<<CliSeed(query)>>)
    /\ UNCHANGED <<fnVars, program, env, teardowns, graph, cleanup_cb, served,
                   rq, response>>

\* main.run_agent after app.ainvoke: the rest of the try, and the finally
run_agent_finally ==
    /\ program = "cli"
    /\ phase = "invoking"
    /\ run.status \in {"returned", "raised"}
    /\ teardowns' = teardowns + 1
    /\ phase' = IF run.status = "returned" THEN "stopped" ELSE "failed"
    /\ UNCHANGED <<fnVars, program, env, connOpen, graph, cleanup_cb, served,
                   rq, run, response>>

\* one super-step of the run at the supervisor node: the backend has the
\* supervisor hand to an agent, or answer
supervisor_step ==
    /\ run.status = "running"
    /\ run.node = "supervisor"
    /\ run.steps < RecursionLimit(program)
    /\ \/ \E agent \in AgentNames :
            /\ Len(run.dispatched) < MaxDispatch
            /\ run' = [run EXCEPT !.messages = @ \o HandoffMessages(agent),
                                  !.steps = @ + 1,
                                  !.node = agent,
                                  !.dispatched = Append(@, agent)]
       \/ \E text \in SupervisorTexts :
            run' = [run EXCEPT !.messages =
                                   Append(@, Msg("ai", "supervisor", StrContent(text))),
                               !.steps = @ + 1,
                               !.node = "END",
                               !.status = "returned"]
    /\ UNCHANGED <<fnVars, program, env, phase, connOpen, teardowns, graph,
                   cleanup_cb, served, rq, response>>

\* one super-step of the run at an agent node: the agent's turn, then the
\* handoff back to the supervisor
agent_step ==
    /\ run.status = "running"
    /\ run.node \in AgentNames
    /\ run.steps < RecursionLimit(program)
    /\ \E reqs \in ToolRequests(AgentTools(program, run.node)) :
         \E turn \in {AgentTurn(program, run.node, reqs)} :
           run' = [run EXCEPT !.messages = @ \o AgentOutput(program, turn.messages)
                                             \o HandoffBackMessages(run.node),
                              !.steps = @ + 1,
                              !.node = "supervisor",
                              !.toolCalls = @ \cup turn.invoked,
                              !.ignored = @ \cup turn.ignored]
    /\ UNCHANGED <<fnVars, program, env, phase, connOpen, teardowns, graph,
                   cleanup_cb, served, rq, response>>

\* the run has done recursion_limit super-steps and is not at its end:
\* ainvoke raises GraphRecursionError
recursion_limit_reached ==
    /\ run.status = "running"
    /\ run.steps >= RecursionLimit(program)
    /\ run' = [run EXCEPT !.status = "raised", !.exc = "GraphRecursionError"]
    /\ UNCHANGED <<fnVars, program, env, phase, connOpen, teardowns, graph,
                   cleanup_cb, served, rq, response>>

\* a call of the model backend fails: ainvoke raises its error
backend_failure ==
    /\ run.status = "running"
    /\ run.steps < RecursionLimit(program)
    /\ run' = [run EXCEPT !.status = "raised", !.exc = "APIError"]
    /\ UNCHANGED <<fnVars, program, env, phase, connOpen, teardowns, graph,
                   cleanup_cb, served, rq, response>>

Next ==
    \/ lifespan_startup
    \/ lifespan_shutdown
    \/ recommend
    \/ recommend_resume
    \/ recommend_raise
    \/ run_agent
    \/ run_agent_finally
    \/ supervisor_step
    \/ agent_step
    \/ recursion_limit_reached
    \/ backend_failure

Spec == Init /\ [][Next]_vars

\* ------------------------------------------------------------------------
\* Claims about the process (checked under Spec).
\* ------------------------------------------------------------------------
\* the intent reads BUY or SELL, in any case, with nothing but white space
\* before and after it
IsBuyOrSell(raw) ==
    \E i \in 1..Len(raw), j \in 1..Len(raw) :
        /\ \A k \in 1..Len(raw) : (k < i \/ k > j) => raw[k] \in Whitespace
        /\ Upper(SubSeq(raw, i, j)) \in {<<"B", "U", "Y">>, <<"S", "E", "L", "L">>}

\* C3: a request whose intent, trimmed and case-folded, is not BUY or SELL
\* is rejected before the pipeline is invoked: no seed message is built and
\* graph.ainvoke is not called; the pipeline is invoked only for requests
\* whose normalized intent is BUY or SELL.
C3_RejectedBeforeInvoke ==
    rq.pc # "idle" =>
        /\ ~IsBuyOrSell(rq.intent) => rq.pc = "rejected"
        /\ rq.pc = "rejected" =>
               (rq.inputs = <<>> /\ ~rq.invoked /\ run = NoRun)
        /\ (rq.invoked \/ rq.inputs # <<>> \/ run # NoRun) => IsBuyOrSell(rq.intent)

\* a request with intent "\nHold " has been rejected, no run started
C3_Witness ==
    /\ rq.pc = "rejected"
    /\ rq.intent = <<"newline", "H", "o", "l", "d", " ">>
    /\ rq.exc = "HTTPException400"
    /\ run = NoRun

\* C4: if the run needs more steps than the recursion limit of 6, the
\* request is answered from the conversation state at the limit: the
\* handler returns a response whose timeline is built from that state.
C4_LimitAnsweredFromTruncatedState ==
    (program = "api" /\ run.exc = "GraphRecursionError" /\ rq.pc # "awaiting")
        => (rq.pc = "responded" /\ Len(response.timeline) = Len(run.messages))

\* the last message of a conversation holds a Recommendation: JSON text of
\* an object whose "stocks" is a list of objects with the eight str fields
EndsInRecommendation(messages) ==
    /\ messages # <<>>
    /\ \A r \in {JsonLoads(PyStr(messages[Len(messages)].content))} :
         /\ r.exc = ""
         /\ r.val.t = "dict"
         /\ HasKey(r.val, "stocks")
         /\ \A stocks \in {GetKey(r.val, "stocks")} :
              /\ stocks.t = "list"
              /\ \A i \in 1..Len(stocks.l) : IsStock(stocks.l[i])

\* C5: whenever the pipeline run completes, the handler returns a response,
\* and for a final message that holds no Recommendation (not JSON, no
\* "stocks", "stocks" no list, entries without the eight str fields) the
\* response's stocks is the empty list.
C5_MalformedOutputNeverFails ==
    (program = "api" /\ run.status = "returned" /\ rq.pc # "awaiting")
        => /\ rq.pc = "responded"
           /\ ~EndsInRecommendation(run.messages) => response.stocks = <<>>

\* C7: in every process lifetime in which the tool connection has been
\* opened, the teardown callback is invoked exactly once, at shutdown:
\* never before the process ends, never twice, and never skipped.
C7_TeardownExactlyOnce ==
    /\ teardowns <= 1
    /\ phase \in {"start", "serving", "invoking"} => teardowns = 0
    /\ (phase \in {"stopped", "startup_failed", "failed"} /\ connOpen)
           => teardowns = 1

\* C10: no tool is invoked in a turn of stock_finder_agent or
\* price_recommender_agent; only market_data_agent and news_analyst_agent
\* invoke a tool, and only search_engine.
C10_ToolInvocations ==
    \A c \in run.toolCalls :
        /\ c[1] \in {"market_data_agent", "news_analyst_agent"}
        /\ c[2] = "search_engine"

\* a run of the api's pipeline in which the backend requested search_engine
\* in a turn of stock_finder_agent and of price_recommender_agent, neither
\* ran it, and news_analyst_agent did run it
C10_Witness ==
    /\ program = "api"
    /\ <<"stock_finder_agent", "search_engine">> \in run.ignored
    /\ <<"price_recommender_agent", "search_engine">> \in run.ignored
    /\ <<"news_analyst_agent", "search_engine">> \in run.toolCalls

\* the order the supervisor's prompt gives
ActivationOrder ==
    <<"stock_finder_agent", "market_data_agent", "news_analyst_agent",
      "price_recommender_agent">>

\* C11: in every run of the supervisor pipeline the agents are activated in
\* the order stock_finder_agent, market_data_agent, news_analyst_agent,
\* price_recommender_agent, each at most once: the agents handed to so far
\* are the first ones of that order, and nothing is handed to after
\* price_recommender_agent.
C11_FixedActivationOrder ==
    /\ Len(run.dispatched) <= Len(ActivationOrder)
    /\ \A i \in 1..Len(run.dispatched) :
         i <= Len(ActivationOrder) => run.dispatched[i] = ActivationOrder[i]

\* ------------------------------------------------------------------------
\* The last model-authored message (checked under SpecFn).
\* ------------------------------------------------------------------------
\* a model-authored answer: an AI message that is no handoff-back control
\* message
IsModelAnswer(m) ==
    /\ MessageType(m.role) = "ai"
    /\ m.content # StrContent(<<"Transferring back to supervisor">>)

HasModelAnswer(conv) == \E i \in 1..Len(conv) : IsModelAnswer(conv[i])

LastModelAnswer(conv) ==
    conv[CHOOSE i \in 1..Len(conv) :
           /\ IsModelAnswer(conv[i])
           /\ \A j \in (i + 1)..Len(conv) : ~IsModelAnswer(conv[j])]

\* the Recommendation a message holds: its content parsed, when that is an
\* object with a "stocks" key, and {"stocks": []} otherwise
RecommendationOf(m) ==
    The({IF r.exc = "" /\ r.val.t = "dict" /\ HasKey(r.val, "stocks")
         THEN r.val ELSE EmptyStocks
         : r \in {JsonLoads(PyStr(m.content))}})

\* C12: the Recommendation is produced only from the last model-authored
\* message of the final conversation: when messages of another role or
\* handoff-back control messages follow that answer, extract_final_text
\* still returns the Recommendation of that answer, and with no
\* model-authored message it returns {"stocks": []}.
C12_LastModelMessageOnly ==
    (res.fn = "extract" /\ res.variant = "graph_app" /\ WellFormed(gout)
     /\ (IsNested(gout) \/ IsFlat(gout)))
        => /\ res.exc = ""
           /\ res.final = IF HasModelAnswer(Conversation(gout))
                          THEN RecommendationOf(LastModelAnswer(Conversation(gout)))
                          ELSE EmptyStocks

\* extract_final_text of graph_app returns the Recommendation of the
\* message at the last index, whatever its role
ExtractUsesLastIndex_graph_app ==
    (res.fn = "extract" /\ res.variant = "graph_app" /\ WellFormed(gout)
     /\ Len(Conversation(gout)) > 0 /\ (IsNested(gout) \/ IsFlat(gout)))
        => /\ res.exc = ""
           /\ res.final = RecommendationOf(Conversation(gout)[Len(Conversation(gout))])

=============================================================================
